---- MODULE Spec2Model ----
(***************************************************************************)
(* Model of secret_santa.py: the input normaliser                          *)
(* (validate_and_deduplicate_inputs), the two-set partition                *)
(* (partition_into_sets), the cycle assembler (create_secret_santa_cycle)  *)
(* and the command-line run (main).                                        *)
(*                                                                         *)
(* A Python dict is a record [none, items]: none is TRUE for the value     *)
(* None, items is the sequence of <<key, value>> pairs in insertion order  *)
(* (the order dict.items() iterates in), keys pairwise distinct.           *)
(***************************************************************************)
EXTENDS Naturals, Sequences, FiniteSets

\* ------------------------------------------------------------- bounds
\* Number of names the inputs draw their tokens from.
NumPeople == 4
\* Longest participants file (tokens, duplicates allowed).
MaxLen == 4
\* Longest partners file (lines "p1,p2").
MaxLines == 2
\* Most keys of an arbitrary partners mapping handed to partition_into_sets.
MaxKeys == 2

Names == <<"A", "B", "C", "D", "E", "F", "G", "H">>
People == {Names[i] : i \in 1..NumPeople}
FirstPeople(k) == {Names[i] : i \in 1..k}

\* ------------------------------------------------------------- sequences
Range(s) == {s[i] : i \in DOMAIN s}

SeqsUpTo(S, n) == UNION {[1..k -> S] : k \in 0..n}

\* All orders the elements of S can be listed in.
RECURSIVE Orderings(_)
Orderings(S) ==
    IF S = {} THEN {<<>>}
    ELSE UNION {{<<x>> \o rest : rest \in Orderings(S \ {x})} : x \in S}

\* All rearrangements of the list s (by position, so equal elements stay).
Rearrangements(s) ==
    {[i \in DOMAIN s |-> s[p[i]]] : p \in Orderings(DOMAIN s)}

Swap(s, i, j) == [s EXCEPT ![i] = s[j], ![j] = s[i]]

\* ------------------------------------------------------------- dicts
None == [none |-> TRUE, items |-> <<>>]
Dict(items) == [none |-> FALSE, items |-> items]

\* Python truthiness of a partners argument: None and {} are both false.
Truthy(d) == ~d.none /\ Len(d.items) > 0

Keys(d) == {d.items[i][1] : i \in DOMAIN d.items}
Values(d) == {d.items[i][2] : i \in DOMAIN d.items}
Has(d, k) == k \in Keys(d)
Get(d, k) == d.items[CHOOSE i \in DOMAIN d.items : d.items[i][1] = k][2]

\* d[k] = v: an existing key keeps its place, a new key goes last.
SetItem(d, k, v) ==
    IF Has(d, k)
    THEN Dict([i \in DOMAIN d.items |->
                 IF d.items[i][1] = k THEN <<k, v>> ELSE d.items[i]])
    ELSE Dict(Append(d.items, <<k, v>>))

\* ------------------------------------------------------------- reading
RECURSIVE read_partners_from(_, _)
read_partners_from(lines, acc) ==
    IF lines = <<>> THEN acc
    ELSE LET p1 == Head(lines)[1]
             p2 == Head(lines)[2]
         IN read_partners_from(Tail(lines), SetItem(SetItem(acc, p1, p2), p2, p1))

read_partners(lines) == read_partners_from(lines, Dict(<<>>))

\* ------------------------------------------------------------- normaliser
\* The loop of lines 101-104 over partners.items()[k..], deduplicated so far = acc.
RECURSIVE DedupFrom(_, _, _)
DedupFrom(items, k, acc) ==
    IF k > Len(items) THEN acc
    ELSE LET p1 == items[k][1]
             p2 == items[k][2]
         IN DedupFrom(items, k + 1,
                      IF <<p2, p1>> \notin Range(acc.items)
                      THEN SetItem(acc, p1, p2)
                      ELSE acc)

\* A deduplication that stores each kept pair in the other direction.
DedupPartnersReversed(partners) ==
    IF Truthy(partners)
    THEN LET d == DedupFrom(partners.items, 1, Dict(<<>>))
         IN Dict([i \in DOMAIN d.items |-> <<d.items[i][2], d.items[i][1]>>])
    ELSE partners

\* partners as lines 99-107 leave it.
DedupPartners(partners) ==
    IF Truthy(partners) THEN DedupFrom(partners.items, 1, Dict(<<>>)) ELSE partners

UniquePartners(partners) == Keys(partners) \cup Values(partners)

\* Checks in the other order: unknown partner before the count.
ValidationErrorUnknownFirst(participants, partners) ==
    IF Len(participants) <= 2 THEN "insufficient"
    ELSE IF ~Truthy(partners) THEN "none"
    ELSE IF \E q \in UniquePartners(partners) : q \notin Range(participants)
         THEN "unknown"
    ELSE IF Cardinality(UniquePartners(partners)) > (Len(participants) \div 2) * 2
         THEN "too_many"
    ELSE "none"

\* Lines 109-121 on the deduplicated inputs: the ValueError raised, or "none".
ValidationError(participants, partners) ==
    IF Len(participants) <= 2 THEN "insufficient"
    ELSE IF ~Truthy(partners) THEN "none"
    ELSE IF Cardinality(UniquePartners(partners)) > (Len(participants) \div 2) * 2
         THEN "too_many"
    ELSE IF \E q \in UniquePartners(partners) : q \notin Range(participants)
         THEN "unknown"
    ELSE "none"

\* The warnings printed by lines 95-96 and 105-106, in order: raw and partners
\* are the arguments, participants and deduplicated what lines 94 and 107 made
\* of them.
Warnings(raw, partners, participants, deduplicated) ==
    (IF Len(participants) < Len(raw)
     THEN << <<"participants", Len(raw) - Len(participants)>> >> ELSE <<>>)
    \o
    (IF Truthy(partners) /\ Len(deduplicated.items) < Len(partners.items)
     THEN << <<"partnerships", Len(partners.items) - Len(deduplicated.items)>> >>
     ELSE <<>>)

\* ------------------------------------------------------------- partitioner
\* A placement that ignores the sizes of the sets.
PlaceAlwaysInA(a, b, p) == <<Append(a, p), b>>

\* Lines 37-40: an unpartnered participant goes to the smaller set, ties to A.
PlaceSingle(a, b, p) ==
    IF Len(a) <= Len(b) THEN <<Append(a, p), b>> ELSE <<a, Append(b, p)>>

\* Lines 28-33: the pair goes to opposite sets, heads = (random.random() < 0.5).
PlacePair(a, b, p, partner, heads) ==
    IF heads THEN <<Append(a, p), Append(b, partner)>>
    ELSE <<Append(a, partner), Append(b, p)>>

\* ------------------------------------------------------------- assembler
\* Lines 66-69 / 72-75: swap into position 0 the first element from index 1 on
\* that is not `banned`; leave the list alone when there is none.
FixHead(s, banned) ==
    LET ok == {i \in 2..Len(s) : s[i] # banned}
    IN IF ok = {} THEN s
       ELSE Swap(s, 1, CHOOSE i \in ok : \A j \in ok : i <= j)

\* Lines 60-75. a_last, b_first, b_last and a_first are read once, before
\* either swap (lines 61-62).
ResolveConflicts(a, b, partners) ==
    IF ~Truthy(partners) THEN <<a, b>>
    ELSE LET a_last  == a[Len(a)]
             b_first == b[1]
             b_last  == b[Len(b)]
             a_first == a[1]
             b2 == IF Has(partners, a_last) /\ Get(partners, a_last) = b_first
                   THEN FixHead(b, Get(partners, a_last)) ELSE b
             a2 == IF Has(partners, b_last) /\ Get(partners, b_last) = a_first
                   THEN FixHead(a, Get(partners, b_last)) ELSE a
         IN <<a2, b2>>

\* Lines 78-79: the directed links inside one set.
Chain(s) == [i \in 1..(Len(s) - 1) |-> <<s[i], s[i + 1]>>]

\* Cross links that close each set on itself.
LinkEachSetToItself(a, b) ==
    Chain(a) \o << <<a[Len(a)], a[1]>>, <<b[Len(b)], b[1]>> >> \o Chain(b)

\* Lines 78-84.
BuildCycle(a, b) ==
    Chain(a) \o << <<a[Len(a)], b[1]>>, <<b[Len(b)], a[1]>> >> \o Chain(b)

\* ------------------------------------------------------------- main
\* A caller that carries on whatever the validation found.
ErrorIgnored(error) == FALSE

\* The raise statements of lines 111, 118 and 121, caught at line 160: a
\* validation error ends the call and the run.
Aborts(error) == error # "none"

\* ------------------------------------------------------------- inputs
\* The program compares names only for equality and set order is modelled as
\* arbitrary, so a participants file is taken up to renaming and reordering:
\* it names the first k people, in order, each one or more times.
ParticipantFiles ==
    {[i \in DOMAIN f |-> Names[f[i]]] :
        f \in {g \in SeqsUpTo(1..NumPeople, MaxLen) :
                 /\ g # <<>> => g[1] = 1
                 /\ \A i \in 1..(Len(g) - 1) : g[i + 1] \in {g[i], g[i] + 1}}}

\* Partners files: any lines, and the well-formed ones (each line two different
\* people in either order, no person on two lines). Lines about different
\* people do not interact, so the well-formed files list their lines in the
\* order of each line's earlier name.
PartnerFiles == SeqsUpTo(People \X People, MaxLines)

Earlier(x, y) == \E a, b \in 1..NumPeople : a < b /\ x = Names[a] /\ y = Names[b]
EarlierName(line) == IF Earlier(line[1], line[2]) THEN line[1] ELSE line[2]

WellFormed(ls) ==
    /\ \A i \in DOMAIN ls : ls[i][1] # ls[i][2]
    /\ \A i, j \in DOMAIN ls : i # j => {ls[i][1], ls[i][2]} \cap {ls[j][1], ls[j][2]} = {}
    /\ \A i \in 1..(Len(ls) - 1) : Earlier(EarlierName(ls[i]), EarlierName(ls[i + 1]))

\* What line 148 can leave in partners: None without --partners, else the dict
\* read_partners builds.
PartnerArgs == {None} \cup {read_partners(ls) : ls \in PartnerFiles}
WellFormedPartnerArgs ==
    {None} \cup {read_partners(ls) : ls \in {f \in PartnerFiles : WellFormed(f)}}

\* Participant lists a caller can pass directly: the first k people in any order.
ParticipantLists == UNION {Orderings(FirstPeople(k)) : k \in 1..NumPeople}

\* Symmetric 1:1 mappings over People (any number of partnerships), None and {}.
\* The callee never iterates over the mapping, so one insertion order is taken.
SymmetricPartnerArgs ==
    {None} \cup
    {read_partners(ls) : ls \in {f \in SeqsUpTo(People \X People, NumPeople \div 2) :
        /\ WellFormed(f)
        /\ \A i \in DOMAIN f : Earlier(f[i][1], f[i][2])}}

\* Arbitrary mappings of up to MaxKeys keys: any key to any value.
ArbitraryPartnerArgs ==
    {None} \cup
    {Dict(items) : items \in {f \in SeqsUpTo(People \X People, MaxKeys) :
        \A i \in 1..(Len(f) - 1) : Earlier(f[i][1], f[i + 1][1])}}

\* ------------------------------------------------------------- state
VARIABLES
    pc,               \* where the run is
    raw_participants, \* the arguments the run started from
    raw_partners,     \*   (in main: what lines 147-148 read)
    participants,     \* the caller's participants variable
    partners,         \* the caller's partners variable
    set_a, set_b,     \* the two sets of partition_into_sets / the assembler
    assigned,         \* partition_into_sets: the assigned set
    idx,              \* partition_into_sets: position of the for loop
    cycle,            \* the value create_secret_santa_cycle returned
    warnings,         \* warnings printed by the normaliser, in order
    err,              \* the validation error raised, "none" if none
    printed           \* the giver -> receiver lines printed by main

vars == <<pc, raw_participants, raw_partners, participants, partners, set_a,
          set_b, assigned, idx, cycle, warnings, err, printed>>

Fresh ==
    /\ set_a = <<>> /\ set_b = <<>> /\ assigned = {} /\ idx = 1
    /\ cycle = <<>> /\ warnings = <<>> /\ err = "none" /\ printed = <<>>

\* main after lines 147-148, the partners file well-formed.
Init ==
    /\ pc = "validate"
    /\ raw_participants \in ParticipantFiles
    /\ raw_partners \in WellFormedPartnerArgs
    /\ participants = raw_participants
    /\ partners = raw_partners
    /\ Fresh

\* Line 152 and, on a ValueError, lines 160-161. list(set(participants)) comes
\* out in any order.
Validate ==
    /\ pc = "validate"
    /\ LET deduplicated == DedupPartners(partners)
       IN \E order \in Orderings(Range(participants)) :
            LET error == ValidationError(order, deduplicated)
            IN /\ warnings' = Warnings(participants, partners, order, deduplicated)
               /\ IF Aborts(error)
                  THEN /\ err' = error
                       /\ pc' = "done"
                       /\ UNCHANGED <<participants, partners>>
                  ELSE /\ participants' = order
                       /\ partners' = deduplicated
                       /\ pc' = "partition"
                       /\ UNCHANGED err
    /\ UNCHANGED <<raw_participants, raw_partners, set_a, set_b, assigned, idx,
                   cycle, printed>>

\* One iteration of the loop of partition_into_sets (lines 22-41).
PartitionStep ==
    /\ pc = "partition"
    /\ idx <= Len(participants)
    /\ LET p == participants[idx]
       IN IF p \in assigned
          THEN UNCHANGED <<set_a, set_b, assigned>>
          ELSE IF Truthy(partners) /\ Has(partners, p)
          THEN \E heads \in BOOLEAN :
                 LET ab == PlacePair(set_a, set_b, p, Get(partners, p), heads)
                 IN /\ set_a' = ab[1]
                    /\ set_b' = ab[2]
                    /\ assigned' = assigned \cup {p, Get(partners, p)}
          ELSE LET ab == PlaceSingle(set_a, set_b, p)
               IN /\ set_a' = ab[1]
                  /\ set_b' = ab[2]
                  /\ assigned' = assigned \cup {p}
    /\ idx' = idx + 1
    /\ UNCHANGED <<pc, raw_participants, raw_partners, participants, partners,
                   cycle, warnings, err, printed>>

\* The loop is over: partition_into_sets returns (line 43).
PartitionReturn ==
    /\ pc = "partition"
    /\ idx > Len(participants)
    /\ pc' = "shuffle"
    /\ UNCHANGED <<raw_participants, raw_partners, participants, partners, set_a,
                   set_b, assigned, idx, cycle, warnings, err, printed>>

\* Lines 55-84: each set is shuffled (any rearrangement), the seams are fixed
\* and the links are built. Indexing an empty set raises IndexError, which
\* nothing catches.
Assemble ==
    /\ pc = "shuffle"
    /\ \E a \in Rearrangements(set_a), b \in Rearrangements(set_b) :
         IF a = <<>> \/ b = <<>>
         THEN /\ pc' = "crashed"
              /\ UNCHANGED <<set_a, set_b, cycle>>
         ELSE LET ab == ResolveConflicts(a, b, partners)
              IN /\ set_a' = ab[1]
                 /\ set_b' = ab[2]
                 /\ cycle' = BuildCycle(ab[1], ab[2])
                 /\ pc' = "returned"
    /\ UNCHANGED <<raw_participants, raw_partners, participants, partners,
                   assigned, idx, warnings, err, printed>>

\* Lines 156-158.
PrintCycle ==
    /\ pc = "returned"
    /\ printed' = cycle
    /\ pc' = "done"
    /\ UNCHANGED <<raw_participants, raw_partners, participants, partners,
                   set_a, set_b, assigned, idx, cycle, warnings, err>>

Next == Validate \/ PartitionStep \/ PartitionReturn \/ Assemble \/ PrintCycle

\* A run of main.
Spec == Init /\ [][Next]_vars

\* ------------------------------------------------------------- the normaliser alone
\* Mappings a previous call has deduplicated.
DeduplicatedPartnerArgs == {DedupPartners(d) : d \in PartnerArgs}

InitNormalize ==
    /\ pc = "normalize"
    /\ raw_participants \in ParticipantFiles
    /\ raw_partners \in PartnerArgs
    /\ participants = raw_participants
    /\ partners = raw_partners
    /\ Fresh

InitRenormalize ==
    /\ pc = "normalize"
    /\ raw_participants \in ParticipantFiles
    /\ raw_partners \in DeduplicatedPartnerArgs
    /\ participants = raw_participants
    /\ partners = raw_partners
    /\ Fresh

\* A call of validate_and_deduplicate_inputs (lines 92-123) on the caller's
\* variables, the result assigned back to them as at line 152.
\* list(set(participants)) comes out in any order.
Normalize ==
    /\ pc = "normalize"
    /\ LET deduplicated == DedupPartners(partners)
       IN \E order \in Orderings(Range(participants)) :
            LET error == ValidationError(order, deduplicated)
            IN /\ warnings' = Warnings(participants, partners, order, deduplicated)
               /\ err' = error
               /\ IF Aborts(error)
                  THEN /\ pc' = "rejected"
                       /\ UNCHANGED <<participants, partners>>
                  ELSE /\ participants' = order
                       /\ partners' = deduplicated
                       /\ pc' = "normalized"
    /\ UNCHANGED <<raw_participants, raw_partners, set_a, set_b, assigned, idx,
                   cycle, printed>>

NextNormalize == Normalize

\* The normaliser called on what the files hold.
SpecNormalize == InitNormalize /\ [][NextNormalize]_vars

\* The normaliser called on a mapping it has deduplicated before.
SpecRenormalize == InitRenormalize /\ [][NextNormalize]_vars

\* ------------------------------------------------------------- direct calls
InitCycle ==
    /\ pc = "partition"
    /\ participants \in ParticipantLists
    /\ partners \in SymmetricPartnerArgs
    /\ raw_participants = participants
    /\ raw_partners = partners
    /\ Fresh

NextCycle == PartitionStep \/ PartitionReturn \/ Assemble

\* create_secret_santa_cycle called with distinct participants and a symmetric
\* 1:1 mapping (or none).
SpecCycle == InitCycle /\ [][NextCycle]_vars

InitPartition ==
    /\ pc = "partition"
    /\ participants \in ParticipantLists
    /\ partners \in ArbitraryPartnerArgs
    /\ raw_participants = participants
    /\ raw_partners = partners
    /\ Fresh

NextPartition == PartitionStep \/ PartitionReturn

\* partition_into_sets called with distinct participants and any mapping.
SpecPartition == InitPartition /\ [][NextPartition]_vars

\* ------------------------------------------------------------- properties
Givers(c) == {c[i][1] : i \in DOMAIN c}
Receivers(c) == {c[i][2] : i \in DOMAIN c}
TimesGiver(c, p) == Cardinality({i \in DOMAIN c : c[i][1] = p})
TimesReceiver(c, p) == Cardinality({i \in DOMAIN c : c[i][2] = p})
Occurrences(s, p) == Cardinality({i \in DOMAIN s : s[i] = p})

\* x and y are partners under the mapping d, in either direction.
ArePartners(d, x, y) == <<x, y>> \in Range(d.items) \/ <<y, x>> \in Range(d.items)

NoPartnerEdge(c, d) == \A i \in DOMAIN c : ~ArePartners(d, c[i][1], c[i][2])

\* The receiver of giver x, and the person k gifts down the line from x.
ReceiverOf(c, x) == c[CHOOSE i \in DOMAIN c : c[i][1] = x][2]
RECURSIVE Walk(_, _, _)
Walk(c, x, k) == IF k = 0 THEN x ELSE Walk(c, ReceiverOf(c, x), k - 1)

EveryoneOnce(c, people) ==
    /\ Givers(c) = people
    /\ Receivers(c) = people
    /\ \A p \in people : TimesGiver(c, p) = 1 /\ TimesReceiver(c, p) = 1

SingleCycle(c, people) ==
    /\ EveryoneOnce(c, people)
    /\ \A p \in people : {Walk(c, p, k) : k \in 0..(Cardinality(people) - 1)} = people

\* C1: for every accepted input (a well-formed partners file, stored in both
\* directions by read_partners), the cycle create_secret_santa_cycle returns on
\* the normaliser's output has every participant exactly once as giver and
\* exactly once as receiver, and nobody else.
C1_EveryoneGivesAndReceivesOnce ==
    pc = "returned" => EveryoneOnce(cycle, Range(participants))

\* C2: with at least 4 participants and exactly one partnership A-B read from
\* the partners file, the returned cycle holds neither A->B nor B->A.
C2_OnePartnershipNeverLinked ==
    (pc = "returned" /\ Len(participants) >= 4 /\ Len(raw_partners.items) = 2)
        => NoPartnerEdge(cycle, raw_partners)

\* C3: called with distinct participants and a symmetric 1:1 mapping over them,
\* when both sets have at least two members no edge of the returned cycle joins
\* two partners, the two cross edges included.
C3_NoPartnerEdgeWhenAvoidable ==
    (/\ pc = "returned"
     /\ UniquePartners(partners) \subseteq Range(participants)
     /\ Len(set_a) >= 2 /\ Len(set_b) >= 2)
        => NoPartnerEdge(cycle, partners)

\* C4: for n >= 3 distinct participants and no partnerships the returned cycle
\* has exactly n edges, no edge from a participant to themselves, and is one
\* single directed cycle through all n participants (no sub-cycle).
C4_SingleCycleWithoutPartners ==
    (pc = "returned" /\ ~Truthy(partners) /\ Len(participants) >= 3)
        => /\ Len(cycle) = Len(participants)
           /\ \A i \in DOMAIN cycle : cycle[i][1] # cycle[i][2]
           /\ SingleCycle(cycle, Range(participants))

C4_Witness ==
    /\ pc = "returned" /\ ~Truthy(partners) /\ Len(participants) = NumPeople
    /\ Len(cycle) = NumPeople

\* C5: the mapping the normaliser returns is symmetric: whenever it pairs A
\* with B it also pairs B with A.
C5_ReturnedMappingSymmetric ==
    (pc \notin {"validate", "done"} /\ err = "none")
        => \A i \in DOMAIN partners.items :
              <<partners.items[i][2], partners.items[i][1]>> \in Range(partners.items)

UnknownPartnerNamed ==
    /\ Cardinality(Range(raw_participants)) >= 3
    /\ Truthy(raw_partners)
    /\ \E q \in UniquePartners(raw_partners) : q \notin Range(raw_participants)

\* C6 as stated: with at least 3 distinct participants and some partnership
\* naming an identifier outside the participant list, the normaliser aborts
\* with the unknown-partner error and no other.
C6_UnknownPartnerAlwaysReported ==
    (pc # "normalize" /\ UnknownPartnerNamed) => (pc = "rejected" /\ err = "unknown")

\* C6 as amended: in that case the normaliser always aborts; the error is
\* too-many-partnerships when the partnerships name more distinct identifiers
\* than 2 * floor(n / 2), n the number of distinct participants, and the
\* unknown-partner error otherwise.
C6_UnknownPartnerRejected ==
    (pc # "normalize" /\ UnknownPartnerNamed)
        => /\ pc = "rejected"
           /\ err = IF Cardinality(UniquePartners(raw_partners))
                        > 2 * (Cardinality(Range(raw_participants)) \div 2)
                    THEN "too_many" ELSE "unknown"

C6_Witness ==
    /\ pc = "rejected" /\ UnknownPartnerNamed /\ err = "unknown"
    /\ Len(raw_participants) > Cardinality(Range(raw_participants))

\* C7: in a run of main, once validation fails with any of the three errors
\* the partition and the assembly never start and no giver -> receiver line is
\* printed; whenever they have started or a line is printed, validation
\* completed without error on the inputs they work on.
C7_NoCycleAfterValidationError ==
    /\ err # "none"
          => /\ err \in {"insufficient", "too_many", "unknown"}
             /\ pc = "done" /\ printed = <<>> /\ cycle = <<>>
             /\ set_a = <<>> /\ set_b = <<>> /\ assigned = {} /\ idx = 1
    /\ (pc \in {"partition", "shuffle", "returned", "crashed"}
        \/ printed # <<>>)
          => /\ err = "none"
             /\ ValidationError(participants, partners) = "none"
             /\ \A p \in Range(participants) : Occurrences(participants, p) = 1

C7_Witness ==
    /\ pc = "done" /\ err = "too_many" /\ printed = <<>>
    /\ \E q \in UniquePartners(raw_partners) : q \notin Range(raw_participants)

\* No participant twice, and no pair of the mapping stored in both directions.
AlreadyDeduplicated(ps, d) ==
    /\ \A p \in Range(ps) : Occurrences(ps, p) = 1
    /\ \A i, j \in DOMAIN d.items :
          i # j => d.items[i] # <<d.items[j][2], d.items[j][1]>>

\* C8: the normaliser is idempotent: what a successful call returns is already
\* deduplicated, and a call on already-deduplicated valid input prints no
\* warning, raises no error and returns the same participant set and the same
\* mapping.
C8_NormalizationIdempotent ==
    /\ pc = "normalized" => AlreadyDeduplicated(participants, partners)
    /\ (pc # "normalize" /\ AlreadyDeduplicated(raw_participants, raw_partners)
        /\ ValidationError(raw_participants, raw_partners) = "none")
          => /\ pc = "normalized" /\ err = "none" /\ warnings = <<>>
             /\ Range(participants) = Range(raw_participants)
             /\ partners = raw_partners

C8_Witness ==
    /\ pc = "normalized" /\ warnings = <<>>
    /\ AlreadyDeduplicated(raw_participants, raw_partners)
    /\ Len(raw_partners.items) = 2
    /\ Cardinality(UniquePartners(raw_partners)) = 4

\* C9: on the normaliser's output, partition_into_sets returns two sets that
\* are disjoint, hold no participant twice, together hold exactly the
\* participants, and never hold both members of a partnership.
C9_PartitionSeparatesPartners ==
    pc = "shuffle"
        => /\ Range(set_a) \cap Range(set_b) = {}
           /\ \A p \in Range(set_a) : Occurrences(set_a, p) = 1
           /\ \A p \in Range(set_b) : Occurrences(set_b, p) = 1
           /\ Range(set_a) \cup Range(set_b) = Range(participants)
           /\ \A x, y \in Range(set_a) : ~ArePartners(partners, x, y)
           /\ \A x, y \in Range(set_b) : ~ArePartners(partners, x, y)

\* C10: at every step of the loop of partition_into_sets and in its result,
\* 0 <= |A| - |B| <= 1, whatever the order, the mapping and the random sides;
\* so with 3 or more participants both sets are non-empty in the result.
C10_SetsBalanced ==
    /\ Len(set_b) <= Len(set_a)
    /\ Len(set_a) <= Len(set_b) + 1
    /\ (pc = "shuffle" /\ Len(participants) >= 3) => (set_a # <<>> /\ set_b # <<>>)

C10_Witness ==
    /\ pc = "shuffle" /\ Len(participants) >= 3
    /\ Len(set_a) = Len(set_b) + 1
    /\ Truthy(partners)
    /\ \E p \in Range(set_a) : Has(partners, p)
    /\ \E p \in Range(participants) : ~Has(partners, p)
====
